---- MODULE Spec2Model ----
(***************************************************************************)
(* Model of the AQL template string handler of arangojs (src/aql.ts):      *)
(* the `aql` tag, `aql.literal` and `aql.join`.                            *)
(*                                                                         *)
(* JavaScript strings are modelled as sequences of one-character strings,  *)
(* JavaScript arrays as cells of a heap (an array has an identity, and a   *)
(* splice changes the cell in place), and the body of the for-loop of      *)
(* `aql` as one step of the state machine.                                 *)
(***************************************************************************)
EXTENDS Integers, Sequences, FiniteSets, TLC

VARIABLES
    scope,       \* the values the caller has at hand to interpolate
    heap,        \* array id -> contents of the array
    queries,     \* the GeneratedAqlQuery objects created so far
    pc,          \* "idle" (no invocation running) or "loop" (inside aql)
    call,        \* the call being served / last served, as the caller made it
    strings,     \* aql: id of the array `strings`
    args,        \* aql: id of the array `args` (the rest parameter)
    bindVars,    \* aql: `bindVars`
    bindValues,  \* aql: `bindValues`
    query,       \* aql: `query`
    i            \* aql: loop index `i` (0-based)

vars == <<scope, heap, queries, pc, call, strings, args, bindVars, bindValues, query, i>>

----------------------------------------------------------------------------
(* Bounds of the model *)

\* A caller makes a call only if the arrays on the heap and the arrays the call
\* allocates on entry hold at most this many elements together
MaxHeapCells == 15

----------------------------------------------------------------------------
(* JavaScript values *)

Undefined == [kind |-> "undefined"]
Null == [kind |-> "null"]
NaN == [kind |-> "nan"]
Num(n) == [kind |-> "number", num |-> n]
Str(s) == [kind |-> "string", str |-> s]
\* an object literal: two objects with the same content are two values
Obj(r) == [kind |-> "object", ref |-> r, val |-> 1]
Collection(r, n) == [kind |-> "collection", ref |-> r, name |-> n]
Graph(r, n) == [kind |-> "graph", ref |-> r, name |-> n]
View(r, n) == [kind |-> "view", ref |-> r, name |-> n]
QueryRef(q) == [kind |-> "query", id |-> q]

\* x === y
StrictEquals(x, y) == x.kind # "nan" /\ x = y

\* the text JavaScript makes of a missing array element in a concatenation
UndefinedText == <<"u", "n", "d", "e", "f", "i", "n", "e", "d">>

DigitChars == <<"0", "1", "2", "3", "4", "5", "6", "7", "8", "9">>

RECURSIVE Digits(_)
\* String(n) for a natural number n
Digits(n) ==
    IF n < 10 THEN <<DigitChars[n + 1]>>
    ELSE Digits(n \div 10) \o <<DigitChars[(n % 10) + 1]>>

\* String(value)
StringOf(v) ==
    CASE v.kind = "string" -> v.str
      [] v.kind = "number" -> Digits(v.num)
      [] v.kind = "null" -> <<"n", "u", "l", "l">>
      [] v.kind = "nan" -> <<"N", "a", "N">>
      [] OTHER -> UndefinedText

\* arr[k], 0-based, as a string operand: a missing element reads "undefined"
StrAt(arr, k) == IF k + 1 \in DOMAIN arr THEN arr[k + 1] ELSE UndefinedText

Min(a, b) == IF a < b THEN a ELSE b

\* arr.splice(start, deleteCount, ...items): the array afterwards
Splice(arr, start, deleteCount, items) ==
    LET s == Min(start, Len(arr))
        d == Min(deleteCount, Len(arr) - s)
    IN  SubSeq(arr, 1, s) \o items \o SubSeq(arr, s + d + 1, Len(arr))

\* arr.slice(from, to)
Slice(arr, from, to) == SubSeq(arr, from + 1, Min(to, Len(arr)))

\* IndexOf with the search failing: no value is recognised as bound before
IndexOf_Never(arr, v) == -1

\* arr.indexOf(v): the first index whose element is strictly equal to v, or -1
IndexOf(arr, v) ==
    LET hits == {k \in 1..Len(arr) : StrictEquals(arr[k], v)}
    IN  IF hits = {} THEN -1
        ELSE (CHOOSE k \in hits : \A m \in hits : k <= m) - 1

----------------------------------------------------------------------------
(* Recognizers *)

isGeneratedAqlQuery(v) == v.kind = "query"

isAqlLiteral(v) == v.kind = "literal"

isArangoCollection(v) == v.kind = "collection"
isArangoGraph(v) == v.kind = "graph"
isArangoView(v) == v.kind = "view"

\* aql.literal(value)
literal(value) ==
    IF isAqlLiteral(value) THEN value
    ELSE [kind |-> "literal", value |-> value]

\* toAQL without the case of undefined
toAQL_String(l) == StringOf(l.value)

\* literal.toAQL()
toAQL(l) == IF l.value.kind = "undefined" THEN <<>> ELSE StringOf(l.value)

----------------------------------------------------------------------------
(* The template string handler *)

\* rawValue._source(): the arrays the closure of query q captured
Source(q, h) == [strings |-> h[q.strings], args |-> h[q.args]]

\* `value${n}`
ValueName(n) == <<"v", "a", "l", "u", "e">> \o Digits(n)

\* bindVars[name] = value
SetBindVar(bv, name, value) == (name :> value) @@ bv

\* HasArgs with the re-walk never taken: the finished text is always inlined
HasArgs_Never(src) == FALSE

\* src.args.length, as the condition of line 217
HasArgs(src) == Len(src.args) # 0

\* SpliceArgs with a delete count of 0: the query stays in the list
SpliceArgs_Keep(as, k, srcArgs) == Splice(as, k, 0, srcArgs)

\* args.splice(i, 1, ...src.args): the array afterwards
SpliceArgs(as, k, srcArgs) == Splice(as, k, 1, srcArgs)

\* SpliceStrings with the slice running one fragment too far
SpliceStrings_Off(ss, k, src) ==
    Splice(ss, k, 2,
        <<StrAt(ss, k) \o StrAt(src.strings, 0)>>
        \o Slice(src.strings, 1, Len(src.args) + 1)
        \o <<StrAt(src.strings, Len(src.args)) \o StrAt(ss, k + 1)>>)

\* strings.splice(i, 2, strings[i] + src.strings[0],
\*   ...src.strings.slice(1, src.args.length),
\*   src.strings[src.args.length] + strings[i + 1]): the array afterwards
SpliceStrings(ss, k, src) ==
    Splice(ss, k, 2,
        <<StrAt(ss, k) \o StrAt(src.strings, 0)>>
        \o Slice(src.strings, 1, Len(src.args))
        \o <<StrAt(src.strings, Len(src.args)) \o StrAt(ss, k + 1)>>)

\* strings.splice(i, 2, strings[i] + rawValue.query + strings[i + 1])
SpliceText(ss, k, text) ==
    Splice(ss, k, 2, <<StrAt(ss, k) \o text \o StrAt(ss, k + 1)>>)

\* AfterSplice without the decrement
AfterSplice_Skip(k) == k + 1

\* the index the loop body runs with next after a splice at index k:
\* i -= 1; continue; and the i++ of the loop header
AfterSplice(k) == (k - 1) + 1

\* lines 215-234: rawValue, the query object q, is a generated query
InlineQuery(f, h, q) ==
    LET src0 == Source(q, h)
    IN  IF HasArgs(src0) THEN
            LET query1 == f.query \o StrAt(src0.strings, 0)
                h1 == [h EXCEPT ![f.args] = SpliceArgs(@, f.i, src0.args)]
                h2 == [h1 EXCEPT ![f.strings] = SpliceStrings(@, f.i, Source(q, h1))]
            IN  [f |-> [f EXCEPT !.query = query1, !.i = AfterSplice(@)], h |-> h2]
        ELSE
            LET query1 == f.query \o q.query \o StrAt(h[f.strings], f.i + 1)
                h1 == [h EXCEPT ![f.args] = Splice(@, f.i, 1, <<>>)]
                h2 == [h1 EXCEPT ![f.strings] = SpliceText(@, f.i, q.query)]
            IN  [f |-> [f EXCEPT !.query = query1, !.i = AfterSplice(@)], h |-> h2]

isNamedResource(v) ==
    isArangoCollection(v) \/ isArangoGraph(v) \/ isArangoView(v)

\* ParamIndex that never reuses an index
ParamIndex_Next(bv, rawValue) == Len(bv)

\* lines 243-245: the number in the parameter name of rawValue
ParamIndex(bv, rawValue) ==
    LET index == IndexOf(bv, rawValue)
        isKnown == index # -1
    IN  IF isKnown THEN index ELSE Len(bv)

\* lines 245-253: the parameter name of rawValue
ParamName(bv, rawValue) ==
    LET name == ValueName(ParamIndex(bv, rawValue))
    IN  IF isNamedResource(rawValue) THEN <<"@">> \o name ELSE name

\* BoundValue without the name of the resource
BoundValue_Raw(rawValue) == rawValue

\* lines 214, 252: the value bound for rawValue
BoundValue(rawValue) ==
    IF isNamedResource(rawValue) THEN Str(rawValue.name) ELSE rawValue

\* lines 243-258: rawValue is bound
BindValue(f, h, rawValue) ==
    LET isKnown == IndexOf(f.bindValues, rawValue) # -1
        name == ParamName(f.bindValues, rawValue)
    IN  [f |-> [f EXCEPT
                  !.bindValues = IF isKnown THEN @ ELSE Append(@, rawValue),
                  !.bindVars = IF isKnown THEN @
                               ELSE SetBindVar(@, name, BoundValue(rawValue)),
                  !.query = @ \o <<"@">> \o name \o StrAt(h[f.strings], f.i + 1),
                  !.i = @ + 1],
         h |-> h]

\* One pass through the body of the for-loop of aql, entered with i < args.length.
\* f holds the locals (strings and args by array id), h the heap, qs the queries.
\* The result holds the locals and the heap after the pass and after the i++ of
\* the loop header.
LoopBody(f, h, qs) ==
    LET rawValue == h[f.args][f.i + 1]
    IN
    IF isGeneratedAqlQuery(rawValue) THEN
        InlineQuery(f, h, qs[rawValue.id])
    ELSE IF rawValue = Undefined THEN
        [f |-> [f EXCEPT !.query = @ \o StrAt(h[f.strings], f.i + 1), !.i = @ + 1],
         h |-> h]
    ELSE IF isAqlLiteral(rawValue) THEN
        [f |-> [f EXCEPT !.query = @ \o toAQL(rawValue) \o StrAt(h[f.strings], f.i + 1),
                         !.i = @ + 1],
         h |-> h]
    ELSE
        BindValue(f, h, rawValue)

\* Enter without the copy of templateStrings
Enter_NoCopy(h, ts, as) ==
    LET h1 == Append(Append(h, h[ts]), as)
    IN  [f |-> [strings |-> ts, args |-> Len(h) + 2,
                bindVars |-> <<>>, bindValues |-> <<>>,
                query |-> StrAt(h[ts], 0), i |-> 0],
         h |-> h1]

\* The locals of aql on entry: lines 208-211. ts is the id of the caller's
\* templateStrings array, as the values passed after it; the copy `strings` and
\* the rest array `args` are new arrays.
Enter(h, ts, as) ==
    LET h1 == Append(Append(h, h[ts]), as)
    IN  [f |-> [strings |-> Len(h) + 1, args |-> Len(h) + 2,
                bindVars |-> <<>>, bindValues |-> <<>>,
                query |-> StrAt(h[ts], 0), i |-> 0],
         h |-> h1]

\* The returned object: lines 260-264
Result(f) == [query |-> f.query, bindVars |-> f.bindVars,
              strings |-> f.strings, args |-> f.args]

RECURSIVE RunLoop(_, _, _)
\* the for-loop run to its end
RunLoop(f, h, qs) ==
    IF f.i < Len(h[f.args])
    THEN LET r == LoopBody(f, h, qs) IN RunLoop(r.f, r.h, qs)
    ELSE [f |-> f, h |-> h]

\* JoinTemplate with a separator after every value
JoinTemplate_Trailing(values, sep) ==
    IF Len(values) = 0 THEN [strings |-> <<<<>>>>, args |-> <<>>]
    ELSE [strings |-> <<<<>>>> \o [k \in 1..(Len(values) - 1) |-> sep] \o <<sep>>,
          args |-> values]

\* aql.join(values, sep): the template strings and the values it hands to aql
JoinTemplate(values, sep) ==
    IF Len(values) = 0 THEN [strings |-> <<<<>>>>, args |-> <<>>]
    ELSE IF Len(values) = 1 THEN [strings |-> <<<<>>, <<>>>>, args |-> <<values[1]>>]
    ELSE [strings |-> <<<<>>>> \o [k \in 1..(Len(values) - 1) |-> sep] \o <<<<>>>>,
          args |-> values]

----------------------------------------------------------------------------
(* The callers *)

\* The sets of values a caller interpolates
Palettes ==
    { {Undefined, Obj(1)},
      {Collection(1, <<"u">>), Collection(2, <<"u">>)},
      {NaN, Null},
      {literal(Str(<<"A", "S", "C">>)), Num(5)},
      {literal(Undefined), View(1, <<"w">>)},
      {Graph(1, <<"g">>), Str(<<"g">>)} }

Separators == {<<",", " ">>}

Letters == <<"A", "B", "C", "D", "E", "F", "G", "H", "I", "J", "K", "L", "M",
             "N", "O", "P", "Q", "R", "S", "T", "U", "V", "W", "X", "Y", "Z">>

\* The literal text of a template with n interpolations, written for the
\* q-th invocation: n + 1 one-letter fragments, no letter used twice
Template(q, n) ==
    [k \in 1..(n + 1) |->
        <<Letters[(((q - 1) * (MaxHeapCells + 1) + k - 1) % Len(Letters)) + 1]>>]

RECURSIVE HeapCells(_)
\* the number of array elements on heap h
HeapCells(h) == IF h = <<>> THEN 0 ELSE Len(Head(h)) + HeapCells(Tail(h))

\* the numbers of values a call can interpolate when it allocates perValue
\* array elements for each value and two more
Sizes(perValue) ==
    LET free == MaxHeapCells - HeapCells(heap) - 2
    IN  IF free < 0 THEN {} ELSE 0..(free \div perValue)

\* a tag call allocates the template (n + 1 elements), its copy (n + 1) and the
\* rest array (n)
TagSizes == Sizes(3)

\* a join call allocates the list of values (n) too
JoinSizes == Sizes(4)

\* what a caller can interpolate: a value at hand or a query made earlier
Interpolable == scope \cup {QueryRef(q) : q \in 1..Len(queries)}

Frame == [strings |-> strings, args |-> args, bindVars |-> bindVars,
          bindValues |-> bindValues, query |-> query, i |-> i]

SetFrame(f) ==
    /\ strings' = f.strings
    /\ args' = f.args
    /\ bindVars' = f.bindVars
    /\ bindValues' = f.bindValues
    /\ query' = f.query
    /\ i' = f.i

NoCall == [fn |-> "none", strings |-> <<>>, args |-> <<>>, sep |-> <<>>,
           ts |-> 0, values |-> 0]

Init ==
    /\ scope \in Palettes
    /\ heap = <<>>
    /\ queries = <<>>
    /\ pc = "idle"
    /\ call = NoCall
    /\ strings = 0
    /\ args = 0
    /\ bindVars = <<>>
    /\ bindValues = <<>>
    /\ query = <<>>
    /\ i = 0

\* aql`...${as[1]}...${as[n]}...`: entry of aql up to the loop
TagCall ==
    /\ pc = "idle"
    /\ \E n \in TagSizes : \E as \in [1..n -> Interpolable] :
          LET ts == Template(Len(queries) + 1, n)
              h0 == Append(heap, ts)
              e == Enter(h0, Len(h0), as)
          IN  /\ call' = [fn |-> "aql", strings |-> ts, args |-> as, sep |-> <<>>,
                          ts |-> Len(h0), values |-> 0]
              /\ heap' = e.h
              /\ SetFrame(e.f)
    /\ pc' = "loop"
    /\ UNCHANGED <<scope, queries>>

\* aql.join(values, sep): join and the entry of the aql it calls, up to the loop
JoinCall ==
    /\ pc = "idle"
    /\ \E n \in JoinSizes : \E values \in [1..n -> Interpolable] :
       \E sep \in Separators :
          LET h0 == Append(heap, values)
              jt == JoinTemplate(h0[Len(h0)], sep)
              h1 == Append(h0, jt.strings)
              e == Enter(h1, Len(h1), jt.args)
          IN  /\ call' = [fn |-> "join", strings |-> <<>>, args |-> values,
                          sep |-> sep, ts |-> Len(h1), values |-> Len(h0)]
              /\ heap' = e.h
              /\ SetFrame(e.f)
    /\ pc' = "loop"
    /\ UNCHANGED <<scope, queries>>

\* one pass through the loop body
LoopStep ==
    /\ pc = "loop"
    /\ i < Len(heap[args])
    /\ LET r == LoopBody(Frame, heap, queries)
       IN  /\ heap' = r.h
           /\ SetFrame(r.f)
    /\ UNCHANGED <<scope, queries, pc, call>>

\* the loop condition fails: aql returns the query object
Return ==
    /\ pc = "loop"
    /\ ~(i < Len(heap[args]))
    /\ queries' = Append(queries, Result(Frame))
    /\ pc' = "idle"
    /\ UNCHANGED <<scope, heap, call, strings, args, bindVars, bindValues, query, i>>

Next == TagCall \/ JoinCall \/ LoopStep \/ Return

Spec == Init /\ [][Next]_vars

\* The callers under which termination is stated interpolate every kind of
\* value: undefined, a literal, a plain value, a named resource and the queries
\* made of them
FairInit == Init /\ scope \in {{Undefined, Obj(1)}, {literal(Undefined), View(1, <<"w">>)}}

\* aql is synchronous: an invocation that has begun runs its loop to the end
\* and returns
FairSpec == FairInit /\ [][Next]_vars /\ WF_vars(LoopStep \/ Return)

TypeOK ==
    /\ pc \in {"idle", "loop"}
    /\ HeapCells(heap) <= 3 * MaxHeapCells

----------------------------------------------------------------------------
(* Notions the properties are stated with *)

\* an invocation has returned, and no other has begun since
Done == pc = "idle" /\ call.fn # "none"

\* the query object the last invocation returned
Last == queries[Len(queries)]

\* the template strings and the values the invocation of aql received: those
\* of the tag call, or those aql.join is said to stand for
SepTemplate(n, sep) ==
    [k \in 1..(n + 1) |-> IF k = 1 \/ k = n + 1 THEN <<>> ELSE sep]

Received ==
    IF call.fn = "aql" THEN [strings |-> call.strings, args |-> call.args]
    ELSE [strings |-> SepTemplate(Len(call.args), call.sep), args |-> call.args]

\* what q._source() returns
Replay(q) == [strings |-> heap[q.strings], args |-> heap[q.args]]

QueryPositions(as) == {p \in 1..Len(as) : as[p].kind = "query"}

\* Template t with the fragments and arguments r written in place of its p-th
\* argument: the fragments next to the gap are joined to the first and the
\* last fragment of r
Inlined(t, p, r) ==
    LET n == Len(r.strings)
        middle == IF n = 1
                  THEN <<t.strings[p] \o r.strings[1] \o t.strings[p + 1]>>
                  ELSE <<t.strings[p] \o r.strings[1]>>
                       \o SubSeq(r.strings, 2, n - 1)
                       \o <<r.strings[n] \o t.strings[p + 1]>>
    IN  [strings |-> SubSeq(t.strings, 1, p - 1) \o middle
                     \o SubSeq(t.strings, p + 2, Len(t.strings)),
         args |-> SubSeq(t.args, 1, p - 1) \o r.args
                  \o SubSeq(t.args, p + 1, Len(t.args))]

RECURSIVE Expanded(_)
\* Template t with every generated query among its arguments replaced by the
\* lists its replay function returns
Expanded(t) ==
    IF QueryPositions(t.args) = {} THEN t
    ELSE LET p == CHOOSE m \in QueryPositions(t.args) :
                      \A k \in QueryPositions(t.args) : m <= k
         IN  Expanded(Inlined(t, p, Replay(queries[t.args[p].id])))

\* the query and the bind parameters a separate invocation of aql returns for
\* template strings ts and values as
Aql(ts, as) ==
    LET h0 == Append(heap, ts)
        e == Enter(h0, Len(h0), as)
        r == RunLoop(e.f, e.h, queries)
    IN  [query |-> r.f.query, bindVars |-> r.f.bindVars]

Output(q) == [query |-> q.query, bindVars |-> q.bindVars]

\* the number of generated queries the loop has still to inline
QueriesAhead(h, a, k) ==
    Cardinality({p \in (k + 1)..Len(h[a]) : h[a][p].kind = "query"})

ValueWord == <<"v", "a", "l", "u", "e">>

IsDigit(c) == \E d \in 1..Len(DigitChars) : DigitChars[d] = c

RECURSIVE DigitsEnd(_, _)
\* the end of the run of digits of s that begins at p; p - 1 if there is none
DigitsEnd(s, p) ==
    IF p <= Len(s) /\ IsDigit(s[p]) THEN DigitsEnd(s, p + 1) ELSE p - 1

RECURSIVE PlaceholdersFrom(_, _)
\* The parameter names of the placeholder tokens of query text s from position
\* p on, in order: a token is "@", an optional "@", "value" and digits, and its
\* parameter name is the token without the leading "@"
PlaceholdersFrom(s, p) ==
    IF p > Len(s) THEN <<>>
    ELSE IF s[p] # "@" THEN PlaceholdersFrom(s, p + 1)
    ELSE LET w == IF p + 1 <= Len(s) /\ s[p + 1] = "@" THEN p + 2 ELSE p + 1
             e == DigitsEnd(s, w + 5)
         IN  IF w + 4 <= Len(s) /\ SubSeq(s, w, w + 4) = ValueWord /\ e >= w + 5
             THEN <<SubSeq(s, p + 1, e)>> \o PlaceholdersFrom(s, e + 1)
             ELSE PlaceholdersFrom(s, p + 1)

Placeholders(s) == PlaceholdersFrom(s, 1)

\* the digits of a parameter name
NumberPart(name) ==
    IF name[1] = "@" THEN SubSeq(name, 7, Len(name)) ELSE SubSeq(name, 6, Len(name))

Range(f) == {f[x] : x \in DOMAIN f}

\* a value aql binds: not undefined, not a literal, not a generated query
Bindable(v) == v.kind \notin {"undefined", "literal", "query"}

Resource(v) == v.kind \in {"collection", "graph", "view"}

\* the bound arguments of a returned query, in order
Bound(q) == SelectSeq(Replay(q).args, Bindable)

\* the position at which the value at position n of b first appears, by ===
First(b, n) ==
    LET same == {k \in 1..n : StrictEquals(b[k], b[n])} \cup {n}
    IN  CHOOSE k \in same : \A m \in same : k <= m

\* the rank of the value at position n of b among the distinct values of b,
\* from 0, in the order of first appearance
Rank(b, n) == Cardinality({k \in 1..(First(b, n) - 1) : First(b, k) = k})

\* the text an argument that is not bound leaves in the query
Rendered(v) ==
    IF v.kind = "undefined" THEN <<>>
    ELSE IF v.value.kind = "undefined" THEN <<>>
    ELSE StringOf(v.value)

----------------------------------------------------------------------------
(* Properties *)

\* C8: during an invocation and after it, the working fragment list is one
\* longer than the working argument list, and so are the lists every query's
\* replay function returns
C8_Pairing ==
    /\ call.fn # "none" => Len(heap[strings]) = Len(heap[args]) + 1
    /\ \A q \in 1..Len(queries) :
          Len(Replay(queries[q]).strings) = Len(Replay(queries[q]).args) + 1

\* a query without and a query with captured arguments have both been inlined
C8_Witness ==
    /\ Done
    /\ Len(call.args) = 2
    /\ \A p \in 1..2 : call.args[p].kind = "query"
    /\ \E p \in 1..2 : Replay(queries[call.args[p].id]).args = <<>>
    /\ Len(heap[args]) = 1

QueriesKept ==
    \A q \in 1..Len(queries) :
        /\ queries'[q] = queries[q]
        /\ Replay(queries[q])' = Replay(queries[q])

CallerArraysKept ==
    /\ call.fn = "aql" => heap[call.ts] = call.strings
    /\ call.fn = "join" => heap[call.values] = call.args

\* C9: no step changes a query object made earlier or the lists its replay
\* function returns, and the template strings a tag call passed and the list of
\* values a join call passed hold what the caller put there
C9_Frame == [][QueriesKept]_vars /\ []CallerArraysKept

\* a query with a captured argument has been joined with itself
C9_Witness ==
    /\ Done
    /\ call.fn = "join"
    /\ call.args = <<QueryRef(1), QueryRef(1)>>
    /\ Replay(queries[1]).args # <<>>
    /\ Len(Replay(Last).args) = 2

\* C10 as claimed: the replay function of the query an invocation returned
\* returns the fragment list and the argument list the invocation received
C10_Original == Done => Replay(Last) = Received

\* C10 as amended: the replay function returns the lists the invocation
\* received with every generated query among the arguments replaced by the
\* lists of its own replay function
C10_Replay == Done => Replay(Last) = Expanded(Received)

\* the query of the second invocation, made of the first, was interpolated
C10_Witness ==
    /\ Done
    /\ Len(queries) = 3
    /\ call.args = <<QueryRef(2)>>
    /\ Replay(queries[2]).args # <<>>
    /\ Replay(Last) # Received

StepShape ==
    pc = "loop" /\ pc' = "loop" =>
        LET a == heap[args]
            b == heap'[args]
        IN  /\ args' = args
            /\ IF a[i + 1].kind = "query"
               THEN /\ i' = i
                    /\ b = SubSeq(a, 1, i)
                           \o Replay(queries[a[i + 1].id]).args
                           \o SubSeq(a, i + 2, Len(a))
                    /\ QueriesAhead(heap', args', i') = QueriesAhead(heap, args, i) - 1
               ELSE /\ i' = i + 1
                    /\ b = a

ReturnShape ==
    pc = "loop" /\ pc' = "idle" =>
        /\ i = Len(heap[args])
        /\ QueriesAhead(heap, args, 0) = 0
        /\ Replay(queries'[Len(queries')]).args = heap[args]

\* C7: an invocation that has begun returns; a pass of the loop either replaces
\* the generated query at the index by its captured arguments, none of them a
\* generated query, and stays at the index, or leaves the arguments alone and
\* moves one index on; the loop ends with the index at the end of the list
C7_Terminates == [][StepShape /\ ReturnShape]_vars /\ (pc = "loop" ~> pc = "idle")

\* an invocation has inlined a query that was itself made of a query
C7_Witness ==
    /\ Done
    /\ Len(queries) = 3
    /\ call.args = <<QueryRef(2)>>
    /\ Len(Replay(queries[2]).args) = 1
    /\ Len(Replay(queries[1]).args) = 1
    /\ i = 1

IndexByRank(q) ==
    LET b == Bound(q)
        t == Placeholders(q.query)
    IN  /\ Len(t) = Len(b)
        /\ \A n \in 1..Len(b) : NumberPart(t[n]) = Digits(Rank(b, n))
        /\ Cardinality(DOMAIN q.bindVars)
             = Cardinality({n \in 1..Len(b) : First(b, n) = n})
        /\ \A m, n \in 1..Len(b) :
              /\ StrictEquals(b[m], b[n]) => t[m] = t[n]
              /\ m # n /\ ~StrictEquals(b[m], b[n]) => t[m] # t[n]

\* C1 as claimed: the placeholder of every bound argument carries the rank of
\* its value among the distinct bound values in the order of first appearance,
\* by strict equality; there are as many bind entries as distinct values; the
\* same value interpolated again gets the same placeholder, and two values that
\* are not strictly equal get two
C1_Original ==
    Done => /\ IndexByRank(Last)
            /\ LET b == Bound(Last)
                   t == Placeholders(Last.query)
               IN  \A m, n \in 1..Len(b) : b[m] = b[n] => t[m] = t[n]

\* C1 as amended: as claimed, but the same value interpolated again gets the
\* same placeholder only if it is strictly equal to itself, which NaN is not
C1_Index == Done => IndexByRank(Last)

\* a value was interpolated, then a second value, then the first again
C1_Witness ==
    /\ Done
    /\ Len(call.args) = 3
    /\ Len(Bound(Last)) = 3
    /\ StrictEquals(Bound(Last)[1], Bound(Last)[3])
    /\ ~StrictEquals(Bound(Last)[1], Bound(Last)[2])
    /\ Cardinality(DOMAIN Last.bindVars) = 2

\* C2: the placeholder of a bound named resource is @@value<N>, and bindVars
\* maps "@value<N>" to the name of the resource; the placeholder of any other
\* bound value is @value<N>, and bindVars maps "value<N>" to the value itself;
\* no two keys of bindVars carry the same number
C2_Sigil ==
    Done =>
        LET b == Bound(Last)
            t == Placeholders(Last.query)
            bv == Last.bindVars
        IN  /\ Len(t) = Len(b)
            /\ \A n \in 1..Len(b) :
                  /\ t[n] \in DOMAIN bv
                  /\ IF Resource(b[n])
                     THEN /\ t[n] = <<"@">> \o ValueWord \o NumberPart(t[n])
                          /\ bv[t[n]] = Str(b[n].name)
                     ELSE /\ t[n] = ValueWord \o NumberPart(t[n])
                          /\ bv[t[n]] = b[n]
            /\ \A k1, k2 \in DOMAIN bv : NumberPart(k1) = NumberPart(k2) => k1 = k2

\* a named resource and a string equal to its name were bound in one invocation
C2_Witness ==
    /\ Done
    /\ \E m, n \in 1..Len(Bound(Last)) :
          /\ m < n
          /\ ~Resource(Bound(Last)[m])
          /\ Resource(Bound(Last)[n])
          /\ Last.bindVars[Placeholders(Last.query)[m]]
               = Last.bindVars[Placeholders(Last.query)[n]]

\* C3: in every query returned, the parameter names of the placeholders in the
\* query string are the keys of bindVars, and the numbers of the keys are
\* 0 .. m - 1 for the m keys
C3_Placeholders ==
    \A q \in 1..Len(queries) :
        LET bv == queries[q].bindVars
        IN  /\ Range(Placeholders(queries[q].query)) = DOMAIN bv
            /\ {NumberPart(k) : k \in DOMAIN bv}
                 = {Digits(n) : n \in 0..(Cardinality(DOMAIN bv) - 1)}

\* aql.join returned a query made of a query with a placeholder and of a value
\* that is bound
C3_Witness ==
    /\ Done
    /\ call.fn = "join"
    /\ Len(call.args) = 2
    /\ call.args[1].kind = "query"
    /\ Bindable(call.args[2])
    /\ Cardinality(DOMAIN Last.bindVars) = 2

\* C4: an invocation that received a generated query as its p-th argument
\* returns the query and the bind parameters of the invocation that receives,
\* in place of that argument, the fragments and arguments the replay function
\* of the query returns; a query that captured no arguments stands for its text
C4_Inline ==
    Done =>
        \A p \in QueryPositions(Received.args) :
            LET r == Replay(queries[Received.args[p].id])
                t == Inlined(Received, p, r)
            IN  /\ Output(Last) = Aql(t.strings, t.args)
                /\ r.args = <<>> => r.strings = <<queries[Received.args[p].id].query>>

\* a value was interpolated beside a query that had bound the same value
C4_Witness ==
    /\ Done
    /\ Len(call.args) = 2
    /\ Bindable(call.args[1])
    /\ call.args[2].kind = "query"
    /\ Bound(queries[call.args[2].id]) = <<call.args[1]>>
    /\ StrictEquals(call.args[1], call.args[1])
    /\ Cardinality(DOMAIN Last.bindVars) = 1

\* C5: aql.join(values, sep) returns the query and the bind parameters of the
\* invocation of aql with the fragments "", sep, ..., sep, "" and the values;
\* without values that is the empty query, and with one value no separator
C5_Join ==
    Done /\ call.fn = "join" =>
        /\ Output(Last) = Aql(SepTemplate(Len(call.args), call.sep), call.args)
        /\ Len(call.args) = 0 => Output(Last) = [query |-> <<>>, bindVars |-> <<>>]
        /\ Len(call.args) = 1 => Output(Last) = Aql(<<<<>>, <<>>>>, call.args)

\* a list of a query with a bound value and that value was joined
C5_Witness ==
    /\ Done
    /\ call.fn = "join"
    /\ Len(call.args) = 2
    /\ call.args[1].kind = "query"
    /\ Bound(queries[call.args[1].id]) = <<call.args[2]>>
    /\ Cardinality(DOMAIN Last.bindVars) = 1

\* C6: an invocation that received undefined or a literal as its p-th argument
\* returns the query and the bind parameters of the invocation that receives
\* neither that argument nor the gap: the fragments around it are joined, with
\* the text of the literal between them
C6_Inline ==
    Done =>
        \A p \in {k \in 1..Len(Received.args) :
                     Received.args[k].kind \in {"undefined", "literal"}} :
            LET t == Inlined(Received, p,
                         [strings |-> <<Rendered(Received.args[p])>>, args |-> <<>>])
            IN  Output(Last) = Aql(t.strings, t.args)

\* a literal of undefined was interpolated before a value that is bound
C6_Witness ==
    /\ Done
    /\ call.fn = "aql"
    /\ Len(call.args) = 2
    /\ call.args[1].kind = "literal"
    /\ call.args[1].value.kind = "undefined"
    /\ Bindable(call.args[2])
    /\ Len(Placeholders(Last.query)) = 1
    /\ NumberPart(Placeholders(Last.query)[1]) = <<"0">>

====
